---- MODULE Spec2Model ----
(***************************************************************************)
(* Model of the two scripts of Python_Assignment_IU.                       *)
(*                                                                         *)
(*   Task01/Python_task01.py   DataHandler (best-fit selection of ideal    *)
(*                             functions, validation of test points) and   *)
(*                             the script's __main__ block.                *)
(*   Task02/Task_02_seg_def.py load_data, preprocess_data and main().      *)
(*                                                                         *)
(* A data frame is a sequence of columns; column 1 is the "x" column and   *)
(* a column is the sequence of its cells, one per row.  A column is named  *)
(* by its position in the frame (pandas keeps column labels unique).       *)
(***************************************************************************)
EXTENDS Integers, Sequences, FiniteSets

VARIABLES
    pc,            \* position of the running script / method
    ideal_df,      \* DataHandler.ideal_df
    train_df,      \* DataHandler.train_df
    best_fit,      \* the dict built by get_best_fit_functions, in insertion order
    col,           \* loop variable of get_best_fit_functions (a train_df column)
    test_df,       \* the frame validate_test_data reads
    row,           \* loop variable of validate_test_data (a test_df row index)
    results,       \* the list built by validate_test_data
    origin,        \* history: for each element of results, <<test row, best_fit position>>
    calls,         \* history: the functions called so far, in call order
    csv,           \* content of the file given to Task02's main
    data,          \* Task02: data
    numeric_data,  \* Task02: numeric_data
    plots,         \* Task02: the plot functions that have completed, in order
    exc,           \* Task02: the step that raised, or "none"
    printed        \* Task02: the final message has been printed

vars == <<pc, ideal_df, train_df, best_fit, col, test_df, row, results, origin,
          calls, csv, data, numeric_data, plots, exc, printed>>

handlerVars == <<ideal_df, train_df, best_fit, col, test_df, row, results, origin>>
task02Vars == <<csv, data, numeric_data, plots, exc, printed>>

---------------------------------------------------------------------------
(* Bounds of the model and the value sets the inputs are drawn from.       *)

NRows == 2
MaxTrainCols == 2
MaxIdealCols == 2
MaxTestRows == 2
MainCols == 4
MaxDataCols == 3
MaxDataRows == 1

XVals == {1, 2}
TrainVals == {0, 3}
IdealVals == {0, 3}
TestXVals == {1, 2}
TestYVals == {0, 4}

Column(S) == [1..NRows -> S]

\* The frames with n columns after the x column x.
Frames(x, n, S) == {<<x>> \o cs : cs \in [1..n -> Column(S)]}

TestRows == [x : TestXVals, y : TestYVals]
TestFrames == UNION {[1..n -> TestRows] : n \in 0..MaxTestRows}

---------------------------------------------------------------------------
(* Arithmetic helpers.                                                     *)

Abs(v) == IF v < 0 THEN -v ELSE v

\* ((a - b)**2).sum() of two columns aligned by row.
RECURSIVE SumSqFrom(_, _, _)
SumSqFrom(a, b, r) ==
    IF r > Len(a) THEN 0
    ELSE (a[r] - b[r]) * (a[r] - b[r]) + SumSqFrom(a, b, r + 1)

SumSq(a, b) == SumSqFrom(a, b, 1)

\* abs(a - b).max() of two columns aligned by row.
RECURSIVE MaxAbsFrom(_, _, _)
MaxAbsFrom(a, b, r) ==
    IF r = Len(a) THEN Abs(a[r] - b[r])
    ELSE LET rest == MaxAbsFrom(a, b, r + 1)
             here == Abs(a[r] - b[r])
         IN IF here >= rest THEN here ELSE rest

MaxAbs(a, b) == MaxAbsFrom(a, b, 1)

---------------------------------------------------------------------------
(* Task01: DataHandler.get_best_fit_functions                              *)

\* df.columns[1:]: every column but the first.
CandidateCols(df) == 2..Len(df)

\* The dict {ideal_col: sum of squared differences} built for training column c.
Deviations(c) ==
    [ic \in CandidateCols(ideal_df) |-> SumSq(train_df[c], ideal_df[ic])]

\* min(deviations, key=deviations.get): the keys are visited in insertion
\* order and a key replaces the best one only when its value is smaller.
RECURSIVE MinKeyFrom(_, _, _, _)
MinKeyFrom(dev, best, k, last) ==
    IF k > last THEN best
    ELSE MinKeyFrom(dev, IF dev[k] < dev[best] THEN k ELSE best, k + 1, last)

\* The same scan, a later key replacing the best one on a tie.
RECURSIVE MinKeyLastFrom(_, _, _, _)
MinKeyLastFrom(dev, best, k, last) ==
    IF k > last THEN best
    ELSE MinKeyLastFrom(dev, IF dev[k] <= dev[best] THEN k ELSE best, k + 1, last)

\* The same scan keeping the larger value.
RECURSIVE MaxKeyFrom(_, _, _, _)
MaxKeyFrom(dev, best, k, last) ==
    IF k > last THEN best
    ELSE MaxKeyFrom(dev, IF dev[k] > dev[best] THEN k ELSE best, k + 1, last)

MinKeyLast(dev) == MinKeyLastFrom(dev, 2, 3, 1 + Cardinality(DOMAIN dev))

MinKeyMax(dev) == MaxKeyFrom(dev, 2, 3, 1 + Cardinality(DOMAIN dev))

\* The keys of dev are the candidate columns 2, 3, ... in column order.
MinKey(dev) == MinKeyFrom(dev, 2, 3, 1 + Cardinality(DOMAIN dev))

\* best_fit = {}; the for loop starts at the first training column.
FitCall ==
    /\ pc = "constructed"
    /\ pc' = "fitting"
    /\ best_fit' = <<>>
    /\ col' = 2
    /\ calls' = Append(calls, "get_best_fit_functions")
    /\ UNCHANGED <<ideal_df, train_df, test_df, row, results, origin>>
    /\ UNCHANGED task02Vars

\* One iteration of the loop: best_fit[col] = min(deviations, ...).
FitStep ==
    /\ pc = "fitting"
    /\ col \in CandidateCols(train_df)
    /\ CandidateCols(ideal_df) # {}
    /\ best_fit' = Append(best_fit, <<col, MinKey(Deviations(col))>>)
    /\ col' = col + 1
    /\ UNCHANGED <<pc, ideal_df, train_df, test_df, row, results, origin, calls>>
    /\ UNCHANGED task02Vars

\* min() of an empty dict raises ValueError: the ideal frame has no candidate.
FitRaise ==
    /\ pc = "fitting"
    /\ col \in CandidateCols(train_df)
    /\ CandidateCols(ideal_df) = {}
    /\ pc' = "raised"
    /\ UNCHANGED <<ideal_df, train_df, best_fit, col, test_df, row, results, origin, calls>>
    /\ UNCHANGED task02Vars

\* The loop is exhausted: return best_fit.
FitReturn ==
    /\ pc = "fitting"
    /\ col \notin CandidateCols(train_df)
    /\ pc' = "fitted"
    /\ UNCHANGED <<ideal_df, train_df, best_fit, col, test_df, row, results, origin, calls>>
    /\ UNCHANGED task02Vars

---------------------------------------------------------------------------
(* Task01: DataHandler.validate_test_data                                  *)

\* x_val in self.ideal_df["x"].values
InIdealX(x_val) == \E r \in 1..Len(ideal_df[1]) : ideal_df[1][r] = x_val

\* self.ideal_df.loc[self.ideal_df["x"] == x_val, ideal_col]: the cells of
\* ideal_col in the rows whose x is x_val, in row order.
RECURSIVE IdealYFrom(_, _, _)
IdealYFrom(x_val, ideal_col, r) ==
    IF r > Len(ideal_df[1]) THEN <<>>
    ELSE (IF ideal_df[1][r] = x_val THEN <<ideal_df[ideal_col][r]>> ELSE <<>>)
         \o IdealYFrom(x_val, ideal_col, r + 1)

IdealYValues(x_val, ideal_col) == IdealYFrom(x_val, ideal_col, 1)

\* deviation <= max_dev * (2**0.5).  The cells are integers and sqrt(2) is
\* irrational, so the comparison is that of the squares.
WithinNoFactor(deviation, max_dev) == deviation <= max_dev

WithinThreshold(deviation, max_dev) ==
    deviation * deviation <= 2 * max_dev * max_dev

\* results.append(t), with the history of where the tuple came from.
RecordFirst(acc, t, from) ==
    [results |-> <<t>> \o acc.results, origin |-> <<from>> \o acc.origin]

Record(acc, t, from) ==
    [results |-> Append(acc.results, t), origin |-> Append(acc.origin, from)]

\* The inner loop over best_fit.items() for test row i, from position k on.
RECURSIVE PairsFrom(_, _, _)
PairsFrom(acc, i, k) ==
    IF k > Len(best_fit) THEN acc
    ELSE LET x_val == test_df[i].x
             y_val == test_df[i].y
             train_col == best_fit[k][1]
             ideal_col == best_fit[k][2]
             max_dev == MaxAbs(train_df[train_col], ideal_df[ideal_col])
             ideal_y_values == IdealYValues(x_val, ideal_col)
             ideal_y == ideal_y_values[1]
             deviation == Abs(y_val - ideal_y)
         IN IF ideal_y_values # <<>> /\ WithinThreshold(deviation, max_dev)
            THEN PairsFrom(Record(acc, <<x_val, y_val, ideal_col, deviation>>, <<i, k>>),
                           i, k + 1)
            ELSE PairsFrom(acc, i, k + 1)

\* What a row whose x is not in the ideal frame does to the loop variable.
SkipBreak(i) == Len(test_df) + 1

SkipRow(i) == i + 1

\* test_df = pd.read_csv(test_file); results = []
ValidateCall ==
    /\ pc = "fitted"
    /\ pc' = "validating"
    /\ test_df' \in TestFrames
    /\ results' = <<>>
    /\ origin' = <<>>
    /\ row' = 1
    /\ calls' = Append(calls, "validate_test_data")
    /\ UNCHANGED <<ideal_df, train_df, best_fit, col>>
    /\ UNCHANGED task02Vars

\* One iteration of the loop over test_df.iterrows().
ValidateRow ==
    /\ pc = "validating"
    /\ row <= Len(test_df)
    /\ IF ~InIdealX(test_df[row].x)
       THEN /\ row' = SkipRow(row)
            /\ UNCHANGED <<results, origin>>
       ELSE LET acc == PairsFrom([results |-> results, origin |-> origin], row, 1)
            IN /\ results' = acc.results
               /\ origin' = acc.origin
               /\ row' = row + 1
    /\ UNCHANGED <<pc, ideal_df, train_df, best_fit, col, test_df, calls>>
    /\ UNCHANGED task02Vars

\* The loop is exhausted: return results.
ValidateReturn ==
    /\ pc = "validating"
    /\ row > Len(test_df)
    /\ pc' = "validated"
    /\ UNCHANGED <<ideal_df, train_df, best_fit, col, test_df, row, results, origin, calls>>
    /\ UNCHANGED task02Vars

---------------------------------------------------------------------------
(* A DataHandler in use: constructed, asked for the best fit, then asked   *)
(* to validate a test file with the mapping it returned.                   *)

Task02Idle ==
    /\ csv = <<>>
    /\ data = <<>>
    /\ numeric_data = <<>>
    /\ plots = <<>>
    /\ exc = "none"
    /\ printed = FALSE

\* DataHandler.__init__: both frames are read; they have the same rows.  The
\* x column is one of xs, the number of training columns one of trainCounts.
Constructed(xs, trainCounts, maxIdeal) ==
    /\ pc = "constructed"
    /\ \E x \in xs :
       \E ni \in 0..maxIdeal, nt \in trainCounts :
          /\ ideal_df \in Frames(x, ni, IdealVals)
          /\ train_df \in Frames(x, nt, TrainVals)
    /\ best_fit = <<>>
    /\ col = 0
    /\ test_df = <<>>
    /\ row = 0
    /\ results = <<>>
    /\ origin = <<>>
    /\ calls = <<>>

Init ==
    /\ Constructed(Column(XVals), 0..MaxTrainCols, MaxIdealCols)
    /\ Task02Idle

Next ==
    \/ FitCall
    \/ FitStep
    \/ FitRaise
    \/ FitReturn
    \/ ValidateCall
    \/ ValidateRow
    \/ ValidateReturn

Spec == Init /\ [][Next]_vars

\* get_best_fit_functions alone.  It never reads the x column, which is
\* 1, 2, ... here.
AscendingX == [r \in 1..NRows |-> r]

InitFit ==
    /\ Constructed({AscendingX}, 0..MaxTrainCols, MaxIdealCols)
    /\ Task02Idle

NextFit ==
    \/ FitCall
    \/ FitStep
    \/ FitRaise
    \/ FitReturn

SpecFit == InitFit /\ [][NextFit]_vars

---------------------------------------------------------------------------
(* Task01: the script's __main__ block (lines 78-84).                      *)

\* A call of main that touches nothing but the position and the call history.
MainCall(from, name, to) ==
    /\ pc = from
    /\ pc' = to
    /\ calls' = Append(calls, name)
    /\ UNCHANGED handlerVars
    /\ UNCHANGED task02Vars

\* plot_data(data_handler.ideal_df, "Ideal Functions", "ideal_functions.html")
PlotIdeal == MainCall("fitted", "plot_data", "plotted_ideal")

\* plot_data(data_handler.train_df, "Training Data", "training_data.html")
PlotTrain == MainCall("plotted_ideal", "plot_data", "plotted_train")

\* plot_best_fit(best_fit, data_handler.train_df, data_handler.ideal_df)
PlotBestFit == MainCall("plotted_train", "plot_best_fit", "plotted_best_fit")

\* unittest.main(): runs the tests and exits the interpreter.
RunTests == MainCall("plotted_best_fit", "unittest.main", "exited")

\* The script is run on a train.csv of four training functions and an
\* ideal.csv of up to four candidates.
InitMain1 ==
    /\ Constructed({AscendingX}, {MainCols}, MainCols)
    /\ Task02Idle

NextMain1 ==
    \/ FitCall
    \/ FitStep
    \/ FitRaise
    \/ FitReturn
    \/ PlotIdeal
    \/ PlotTrain
    \/ PlotBestFit
    \/ RunTests

SpecMain1 == InitMain1 /\ [][NextMain1]_vars

---------------------------------------------------------------------------
(* Task02: load_data, preprocess_data and main(file_path).                 *)
(* A column of the dataset is a record of its label, its dtype and its     *)
(* cells; read_csv gives a column one of the dtypes below.                 *)

DTypes == {"int64", "float64", "bool", "object"}

CellVals(dtype) ==
    CASE dtype = "int64" -> {"1", "2"}
      [] dtype = "float64" -> {"0.5"}
      [] dtype = "bool" -> {"True"}
      [] OTHER -> {"Al2O3"}

DataColumns(k, n) ==
    UNION {[label : {k}, dtype : {d}, cells : [1..n -> CellVals(d)]] : d \in DTypes}

RECURSIVE DataFramesFrom(_, _, _)
DataFramesFrom(k, m, n) ==
    IF k > m THEN {<<>>}
    ELSE {<<c>> \o rest : c \in DataColumns(k, n), rest \in DataFramesFrom(k + 1, m, n)}

\* The datasets of exactly m columns and n rows, the labels being 1..m.
DataFrames == UNION {DataFramesFrom(1, m, n) : m \in 0..MaxDataCols, n \in 0..MaxDataRows}

\* A dtype that 'number' selects: bool and object are not numbers.
IsNumberOrBool(dtype) == dtype \in {"int64", "float64", "bool"}

IsNumber(dtype) == dtype \in {"int64", "float64"}

\* data.select_dtypes(include=['number']): a new frame of the numeric columns.
RECURSIVE SelectDtypesFrom(_, _)
SelectDtypesFrom(df, k) ==
    IF k > Len(df) THEN <<>>
    ELSE (IF IsNumber(df[k].dtype) THEN <<df[k]>> ELSE <<>>) \o SelectDtypesFrom(df, k + 1)

preprocess_data(df) == SelectDtypesFrom(df, 1)

\* A plot call whose exception is swallowed: main goes on after the call.
PlotSwallow(from, name, to) ==
    /\ pc = from
    /\ calls' = Append(calls, name)
    /\ \/ /\ pc' = to
          /\ plots' = Append(plots, name)
          /\ UNCHANGED exc
       \/ /\ pc' = to
          /\ exc' = name
          /\ UNCHANGED plots
    /\ UNCHANGED <<csv, data, numeric_data, printed>>
    /\ UNCHANGED handlerVars

\* A plot call of main: the plot is shown, or the library raises and the
\* exception leaves main, which catches nothing.
Plot(from, name, to) ==
    /\ pc = from
    /\ calls' = Append(calls, name)
    /\ \/ /\ pc' = to
          /\ plots' = Append(plots, name)
          /\ UNCHANGED exc
       \/ /\ pc' = "raised"
          /\ exc' = name
          /\ UNCHANGED plots
    /\ UNCHANGED <<csv, data, numeric_data, printed>>
    /\ UNCHANGED handlerVars

\* data = load_data(file_path); read_csv raises when the file cannot be read.
LoadData ==
    /\ pc = "start"
    /\ calls' = Append(calls, "load_data")
    /\ \/ /\ pc' = "loaded"
          /\ data' = csv
          /\ UNCHANGED exc
       \/ /\ pc' = "raised"
          /\ exc' = "load_data"
          /\ UNCHANGED data
    /\ UNCHANGED <<csv, numeric_data, plots, printed>>
    /\ UNCHANGED handlerVars

\* numeric_data = preprocess_data(data)
Preprocess ==
    /\ pc = "loaded"
    /\ pc' = "preprocessed"
    /\ calls' = Append(calls, "preprocess_data")
    /\ numeric_data' = preprocess_data(data)
    /\ UNCHANGED <<csv, data, plots, exc, printed>>
    /\ UNCHANGED handlerVars

\* unittest.main(argv=[''], exit=False): test failures are reported, not raised.
RunUnitTests ==
    /\ pc = "preprocessed"
    /\ pc' = "tested"
    /\ calls' = Append(calls, "unittest.main")
    /\ UNCHANGED task02Vars
    /\ UNCHANGED handlerVars

PlotHeatmap == Plot("tested", "plot_heatmap", "heatmap_done")
PlotScatterBokeh == Plot("heatmap_done", "plot_scatter_bokeh", "scatter_done")
PlotHistogram == Plot("scatter_done", "plot_histogram", "histogram_done")
PlotBar == Plot("histogram_done", "plot_bar", "bar_done")
PlotBoxplot == Plot("bar_done", "plot_boxplot", "boxplot_done")
Plot3dScatter == Plot("boxplot_done", "plot_3d_scatter_plot", "scatter3d_done")

\* print("All visualizations generated successfully!")
PrintSuccess ==
    /\ pc = "scatter3d_done"
    /\ pc' = "done"
    /\ printed' = TRUE
    /\ UNCHANGED <<calls, csv, data, numeric_data, plots, exc>>
    /\ UNCHANGED handlerVars

InitMain2 ==
    /\ pc = "start"
    /\ csv \in DataFrames
    /\ data = <<>>
    /\ numeric_data = <<>>
    /\ plots = <<>>
    /\ exc = "none"
    /\ printed = FALSE
    /\ calls = <<>>
    /\ ideal_df = <<>>
    /\ train_df = <<>>
    /\ best_fit = <<>>
    /\ col = 0
    /\ test_df = <<>>
    /\ row = 0
    /\ results = <<>>
    /\ origin = <<>>

NextMain2 ==
    \/ LoadData
    \/ Preprocess
    \/ RunUnitTests
    \/ PlotHeatmap
    \/ PlotScatterBokeh
    \/ PlotHistogram
    \/ PlotBar
    \/ PlotBoxplot
    \/ Plot3dScatter
    \/ PrintSuccess

SpecMain2 == InitMain2 /\ [][NextMain2]_vars

---------------------------------------------------------------------------
(* The properties.  Their helpers are stated from the rows of the frames,  *)
(* not with the operators of the model above.                              *)

Rows == 1..Len(ideal_df[1])

Dist(a, b) == IF a >= b THEN a - b ELSE b - a

\* Sum over the rows of (train[c] - ideal[i])^2.
SquaredError(c, i) ==
    LET partial[r \in 0..Len(ideal_df[1])] ==
            IF r = 0 THEN 0
            ELSE partial[r - 1]
                 + Dist(train_df[c][r], ideal_df[i][r]) * Dist(train_df[c][r], ideal_df[i][r])
    IN partial[Len(ideal_df[1])]

\* Maximum over the rows of |train[c] - ideal[i]|.
MaxDeviation(c, i) ==
    CHOOSE m \in {Dist(train_df[c][r], ideal_df[i][r]) : r \in Rows} :
        \A r \in Rows : Dist(train_df[c][r], ideal_df[i][r]) <= m

XOccurs(x) == x \in {ideal_df[1][r] : r \in Rows}

\* The first ideal row whose x is x.
FirstRowOf(x) ==
    CHOOSE r \in Rows : ideal_df[1][r] = x /\ \A q \in 1..(r - 1) : ideal_df[1][q] # x

\* |y - ideal[ideal_col] at x| of test row i and the k-th pair of best_fit.
DeviationOf(i, k) ==
    Dist(test_df[i].y, ideal_df[best_fit[k][2]][FirstRowOf(test_df[i].x)])

Qualifies(i, k) ==
    /\ XOccurs(test_df[i].x)
    /\ LET d == DeviationOf(i, k)
           m == MaxDeviation(best_fit[k][1], best_fit[k][2])
       IN d * d <= 2 * m * m

Recorded(i, k) == \E n \in 1..Len(origin) : origin[n] = <<i, k>>

InValidate == pc \in {"validating", "validated"}

\* C1: every training column (every column of train_df but the first) is
\* mapped, in column order, to a candidate column of ideal_df whose sum of
\* squared differences to it is at most that of every other candidate; when
\* get_best_fit_functions has returned, every training column is mapped.
C1_BestFitIsArgMin ==
    /\ \A k \in 1..Len(best_fit) :
          LET c == best_fit[k][1]
              i == best_fit[k][2]
          IN /\ c = k + 1
             /\ c \in 2..Len(train_df)
             /\ i \in 2..Len(ideal_df)
             /\ \A j \in 2..Len(ideal_df) : SquaredError(c, i) <= SquaredError(c, j)
    /\ pc = "fitted" => Len(best_fit) = Len(train_df) - 1

\* A returned mapping in which a training column is mapped to the second
\* candidate, which fits it strictly better than the first.
C1_Witness ==
    /\ pc = "fitted"
    /\ Len(best_fit) = 2
    /\ \E k \in 1..Len(best_fit) :
          /\ best_fit[k][2] = 3
          /\ SquaredError(best_fit[k][1], 3) < SquaredError(best_fit[k][1], 2)

\* C2 (as claimed): the mapping get_best_fit_functions returns names exactly
\* four ideal functions.
C2_NamesFourIdealFunctions ==
    pc = "fitted" => Cardinality({best_fit[k][2] : k \in 1..Len(best_fit)}) = 4

\* C3: once a test row i has been processed, a tuple is recorded for it and
\* the k-th pair of best_fit if and only if its x occurs in the ideal x column
\* and the deviation d = |y - ideal value at the first row with that x|
\* satisfies d^2 <= 2 * max_dev^2; the recorded tuple is (x, y, ideal_col, d).
C3_RecordedIffWithinThreshold ==
    InValidate =>
        /\ \A i \in 1..(row - 1) : \A k \in 1..Len(best_fit) :
              Recorded(i, k) <=> Qualifies(i, k)
        /\ Len(results) = Len(origin)
        /\ \A n \in 1..Len(origin) :
              LET i == origin[n][1]
                  k == origin[n][2]
              IN results[n] = <<test_df[i].x, test_df[i].y, best_fit[k][2], DeviationOf(i, k)>>

\* A finished validation that recorded a deviation above max_dev (4 against
\* 3), refused a pair of a row whose x occurs, and looked a value up at an x
\* that two ideal rows share with different values.
C3_Witness ==
    /\ pc = "validated"
    /\ \E n \in 1..Len(results) :
          /\ results[n][4] = 4
          /\ MaxDeviation(best_fit[origin[n][2]][1], best_fit[origin[n][2]][2]) = 3
    /\ \E i \in 1..Len(test_df) : \E k \in 1..Len(best_fit) :
          XOccurs(test_df[i].x) /\ ~Recorded(i, k)
    /\ \E n \in 1..Len(results) : \E r \in Rows :
          /\ r # FirstRowOf(results[n][1])
          /\ ideal_df[1][r] = results[n][1]
          /\ ideal_df[results[n][3]][r] # ideal_df[results[n][3]][FirstRowOf(results[n][1])]

\* C4 (as claimed): when the first script has run to its end,
\* validate_test_data has been called, after get_best_fit_functions.
C4_ValidateCalledAfterFit ==
    pc = "exited" =>
        \E n \in 1..Len(calls) :
            /\ calls[n] = "validate_test_data"
            /\ \E m \in 1..(n - 1) : calls[m] = "get_best_fit_functions"

SixPlots ==
    <<"plot_heatmap", "plot_scatter_bokeh", "plot_histogram", "plot_bar",
      "plot_boxplot", "plot_3d_scatter_plot">>

\* C5: main loads, preprocesses and runs the unit tests before any plot; the
\* completed plots are always a prefix of heatmap, Bokeh scatter, histogram,
\* bar, box, 3D scatter; the message is printed only when all six have
\* completed and no step raised.
C5_MessageOnlyAfterSixPlots ==
    /\ Len(plots) <= 6
    /\ plots = SubSeq(SixPlots, 1, Len(plots))
    /\ plots # <<>> =>
          SubSeq(calls, 1, 3) = <<"load_data", "preprocess_data", "unittest.main">>
    /\ printed => plots = SixPlots /\ exc = "none"
    /\ exc # "none" => ~printed /\ pc = "raised"

\* The message has been printed after the six plots.
C5_Witness == printed /\ pc = "done" /\ Len(plots) = 6

\* C6: a processed test row whose x does not occur in the ideal x column has
\* no tuple; validation never raises, returns only after the last row, and a
\* row after a skipped one whose y equals the ideal value of a pair is recorded.
C6_UnknownXSkipped ==
    InValidate =>
        /\ \A i \in 1..(row - 1) :
              ~XOccurs(test_df[i].x) => \A k \in 1..Len(best_fit) : ~Recorded(i, k)
        /\ \A n \in 1..Len(results) : XOccurs(results[n][1])
        /\ pc = "validated" =>
              /\ row = Len(test_df) + 1
              /\ \A i \in 1..Len(test_df) : \A j \in (i + 1)..Len(test_df) :
                    \A k \in 1..Len(best_fit) :
                       (/\ ~XOccurs(test_df[i].x)
                        /\ XOccurs(test_df[j].x)
                        /\ DeviationOf(j, k) = 0) => Recorded(j, k)

\* A finished validation whose first row was skipped and whose second row
\* was recorded.
C6_Witness ==
    /\ pc = "validated"
    /\ Len(test_df) = 2
    /\ ~XOccurs(test_df[1].x)
    /\ \E n \in 1..Len(origin) : origin[n][1] = 2

NumericDTypes == {"int64", "float64"}

Preprocessed == \E n \in 1..Len(calls) : calls[n] = "preprocess_data"

\* C7: after preprocess_data, numeric_data holds exactly the columns of data
\* whose dtype is numeric, each with all its cells, in data's column order,
\* and data is still the frame that was loaded.
C7_NumericColumnsOnly ==
    Preprocessed =>
        /\ data = csv
        /\ \A k \in 1..Len(data) :
              data[k].dtype \in NumericDTypes
                 <=> \E n \in 1..Len(numeric_data) : numeric_data[n] = data[k]
        /\ \A n \in 1..Len(numeric_data) :
              \E k \in 1..Len(data) : numeric_data[n] = data[k]
        /\ \A n \in 1..Len(numeric_data) : \A m \in (n + 1)..Len(numeric_data) :
              numeric_data[n].label < numeric_data[m].label

\* A preprocessed dataset with rows, two numeric columns and a bool column.
C7_Witness ==
    /\ Preprocessed
    /\ Len(numeric_data) = 2
    /\ \E k \in 1..Len(data) : data[k].dtype = "bool" /\ Len(data[k].cells) > 0

Before(a, b) == a[1] < b[1] \/ (a[1] = b[1] /\ a[2] < b[2])

\* C9: the tuples are ordered by test row and, within a row, by the position
\* of the pair in best_fit; a row has at most len(best_fit) tuples and the
\* list at most (number of test rows) * len(best_fit).
C9_ResultsOrdered ==
    InValidate =>
        /\ Len(results) = Len(origin)
        /\ \A n \in 1..Len(origin) :
              /\ origin[n][1] \in 1..Len(test_df)
              /\ origin[n][2] \in 1..Len(best_fit)
              /\ results[n][1] = test_df[origin[n][1]].x
              /\ results[n][2] = test_df[origin[n][1]].y
              /\ results[n][3] = best_fit[origin[n][2]][2]
        /\ \A n \in 1..Len(origin) : \A m \in (n + 1)..Len(origin) :
              Before(origin[n], origin[m])
        /\ \A i \in 1..Len(test_df) :
              Cardinality({n \in 1..Len(origin) : origin[n][1] = i}) <= Len(best_fit)
        /\ Len(results) <= Len(test_df) * Len(best_fit)

\* A finished validation in which the first test row has no tuple and the
\* second has two, for two different ideal functions.
C9_Witness ==
    /\ pc = "validated"
    /\ Len(results) = 2
    /\ origin[1][1] = 2
    /\ origin[2][1] = 2
    /\ results[1][3] # results[2][3]

====
